---- MODULE Spec2Model ----
(***************************************************************************)
(* Task registry and backfill orchestration of                             *)
(* instock/web/dataDownloadHandler.py.                                     *)
(*                                                                         *)
(* DataDownloadApiHandler keeps every background task in the class-level   *)
(* dict `tasks` and runs the task bodies on the class-level                *)
(* ThreadPoolExecutor.  A worker position is the source line the worker    *)
(* thread executes next ("L972" is line 972); every assignment to the task *)
(* record is one step, because status polls read the record from the       *)
(* IOLoop thread between any two of them.                                  *)
(***************************************************************************)
EXTENDS Integers, Sequences, FiniteSets, TLC

\* ------------------------------------------------------------------ bounds
MaxTasks == 1        \* task submissions accepted in one run
MaxChecks == 4       \* completeness checks submitted in one run
MaxStocks == 2       \* longest missing_stocks list of a batch backfill
MaxDate == 3         \* calendar days a completeness check can range over
MaxInstruments == 2  \* instruments in the registry and the store
MaxRows == 5         \* rows of the largest DataFrame handed to an insert
MaxBatch == 3        \* largest batch_size of batch_insert_dataframe
MaxWrites == 2       \* backfill and download tasks that reach the store
MaxRuns == 2         \* runs of the daily after-close saves
MaxBackfills == 2    \* single backfill tasks submitted to the same pool

\* -------------------------------------------------------- program constants
PoolSize == 4        \* ThreadPoolExecutor(max_workers=4)
max_retries == 3     \* execute_query: max_retries = 3

VARIABLES
    tasks,             \* DataDownloadApiHandler.tasks: task id -> record
    wk,                \* per task: the worker thread running its body
    resp,              \* per task: the submitting handler coroutine
    queue,             \* executor work queue (FIFO): task ids, 0 = a check
    checksRunning,     \* pool threads inside a completeness check
    checksSubmitted,   \* completeness checks submitted so far
    db_engine_module,  \* module global: "importing", then "loaded" or "None"
    polled,            \* what the last get_task_status request was answered
    all_trade_dates,   \* stock_trade_date().get_data(): the trading calendar
    list_date,         \* tushare stock_basic: listing date per instrument
    store,             \* cn_stock_history: the (instrument, date) keys held
    db_client,         \* what create_clickhouse_client() / query() do
    checked,           \* the last completeness check and what it returned
    filled,            \* the writes to cn_stock_history made so far
    client,            \* ClickHouseClient.client: "connected" or "None"
    query_call,        \* execute_query: "idle", "L95" (loop head), "returned"
    attempt,           \* execute_query: the loop index
    retry_delay,       \* execute_query: the next delay
    query_outcomes,    \* what each self.client.query call did, in order
    slept,             \* the arguments of time.sleep, in order
    query_ret,         \* what execute_query returned, << >> before it returns
    insert_call,       \* the insert: "idle", "L242" (loop head), "returned"
    method,            \* the insert method called
    df,                \* the DataFrame handed to it: its rows, in order
    batch_size,        \* batch_insert_dataframe: batch_size
    batch_start,       \* batch_insert_dataframe: the loop index i
    successful_batches,
    inserted,          \* the self.client.insert_df calls: <<rows, succeeded>>
    table,             \* rows ClickHouseClient has inserted, in order
    insert_ret,        \* what the insert returned, << >> before it returns
    job_exists,        \* daily job: the tables mdb.checkTableIsExist finds
    job_rows,          \* daily job: per table, its rows <<date, code, copy>>
    job_log,           \* daily job: the runs made, with their statements
    bs_calls,          \* the baostock calls made, in order: <<task id, call>>
    refused            \* the message of the last submission refused, or ""

\* basic_data_after_close_daily_job.py
jobVars == <<job_exists, job_rows, job_log>>

\* ClickHouseClient.execute_query and the two insert methods.
queryVars == <<query_call, attempt, retry_delay, query_outcomes, slept,
               query_ret>>
insertVars == <<insert_call, method, df, batch_size, batch_start,
                successful_batches, inserted, table, insert_ret>>

\* ClickHouseClient calls, the history of store writes and the daily job.
storeCallVars == <<filled, client, queryVars, insertVars, jobVars>>

\* What the pool and the polls leave alone: the above, the provider session
\* and the answer to a refused submission.
clientVars == <<storeCallVars, bs_calls, refused>>

\* What the task handlers leave alone: the poll and the completeness checks.
checkVars == <<polled, all_trade_dates, list_date, store, db_client, checked,
               clientVars>>

vars == <<tasks, wk, resp, queue, checksRunning, checksSubmitted,
          db_engine_module, checkVars>>

\* ------------------------------------------------------------ record layouts
\* (Every record is built by one of these constructors, with its fields in
\* the order of their first occurrence in the module.)
\* A message string: its fixed text, the cause it embeds, the num/den it embeds.
Msg(tag) == [tag |-> tag, cause |-> "", num |-> 0, den |-> 0]
MsgCause(tag, cause) == [tag |-> tag, cause |-> cause, num |-> 0, den |-> 0]
MsgCount(tag, num, den) == [tag |-> tag, cause |-> "", num |-> num, den |-> den]

NoCount == -1    \* a result key that is not in the task record yet

\* The task record written by the three submission handlers.
NewTask(type, message, stock_code, write_to_db, missing_stocks) ==
    [ type |-> type,
      message |-> Msg(message),
      stock_code |-> stock_code,
      write_to_db |-> write_to_db,
      missing_stocks |-> missing_stocks,
      status |-> "pending",
      progress |-> 0,
      download_url |-> FALSE,
      filename |-> FALSE,
      record_count |-> FALSE,
      success_count |-> NoCount,
      total_count |-> NoCount ]

\* The worker's frame: position, locals, and what it has been through
\* (failure: an exception was raised in the body; attempts[i]: provider calls
\* made for stock i; returned_true: provider calls that returned True;
\* waited: every pool thread was busy when the body was submitted).
NewWorker(count) ==
    [ success_count |-> 0,
      pc |-> "queued",
      err |-> "",
      success |-> FALSE,
      failure |-> FALSE,
      order |-> << >>,
      idx |-> 0,
      processed_stocks |-> 0,
      attempts |-> [i \in 1..count |-> 0],
      returned_true |-> 0,
      waited |-> FALSE ]

\* One entry of the batch check's detail list (result_item).
ResultItem(code, total_expected, existing_count, missing_count, completeness) ==
    [ code |-> code,
      total_expected |-> total_expected,
      existing_count |-> existing_count,
      missing_count |-> missing_count,
      completeness |-> completeness ]

\* The dict _check_data_completeness returns; queries: the store queries it
\* issued, in order.  completeness is in hundredths of a percent.
Report(total_expected, existing_count, missing_count, completeness, missing_dates, note, queries) ==
    [ success |-> TRUE,
      total_expected |-> total_expected,
      existing_count |-> existing_count,
      missing_count |-> missing_count,
      completeness |-> completeness,
      missing_dates |-> missing_dates,
      note |-> note,
      queries |-> queries,
      has_missing |-> missing_count > 0 ]

\* The dict _check_batch_data_completeness returns (summary flattened).
BatchReport(message, ok, listed, bands, details, total_expected_days, queries) ==
    [ message |-> message,
      success |-> ok,
      queries |-> queries,
      details |-> details,
      total_expected_days |-> total_expected_days,
      total_stocks |-> listed,
      complete_stocks |-> bands[1],
      partial_missing |-> bands[2],
      severe_missing |-> bands[3] ]

\* One entry of stock_list as _get_stock_list_with_ipo_date returns it.
StockInfo(code, ipo_date) == [code |-> code, ipo_date |-> ipo_date]

\* A completeness request and the dict it was answered with.
CheckDone(stock_code, check_scope, start_date, end_date, result) ==
    [ stock_code |-> stock_code,
      check_scope |-> check_scope,
      start_date |-> start_date,
      end_date |-> end_date,
      result |-> result ]

\* ------------------------------------------------------------------ values
Codes == {"6", "0", "8", "9"}          \* leading character of stock_code
Markets == {"SH", "SZ", "BJ", "HK"}    \* stock['market'] of a batch entry
Terminal == {"completed", "failed"}

TaskIds == DOMAIN tasks

\* _get_market_from_code
GetMarketFromCode(stock_code) ==
    IF stock_code = "6" THEN "SH"
    ELSE IF stock_code \in {"0", "3"} THEN "SZ"
    ELSE IF stock_code \in {"8", "4"} THEN "BJ"
    ELSE "SZ"

\* PoolBusy with a leak: a thread that ran a check is never given back.
PoolBusy_Leak ==
    (checksSubmitted - Len(SelectSeq(queue, LAMBDA j : j = 0)))
    + Cardinality({t \in TaskIds : wk[t].pc \notin {"queued", "returned"}})

\* Pool threads that are inside a job.
PoolBusy ==
    checksRunning
    + Cardinality({t \in TaskIds : wk[t].pc \notin {"queued", "returned"}})

\* No task has been submitted.
NoTasks ==
    /\ tasks = << >>
    /\ wk = << >>
    /\ resp = << >>
    /\ queue = << >>
    /\ checksRunning = 0
    /\ checksSubmitted = 0

\* No poll and no completeness check has been answered; empty calendar,
\* registry and store.
NoChecks ==
    /\ polled = << >>
    /\ all_trade_dates = {}
    /\ list_date = << >>
    /\ store = {}
    /\ db_client = "ok"
    /\ checked = << >>

\* No store write and no ClickHouseClient call has been made.
NoQuery ==
    /\ query_call = "idle"
    /\ attempt = 0
    /\ retry_delay = 1
    /\ query_outcomes = << >>
    /\ slept = << >>
    /\ query_ret = << >>

NoInsert ==
    /\ insert_call = "idle"
    /\ method = ""
    /\ df = << >>
    /\ batch_size = 0
    /\ batch_start = 0
    /\ successful_batches = 0
    /\ inserted = << >>
    /\ table = << >>
    /\ insert_ret = << >>

\* The daily job has not run and has no table yet.
TableNames == {"cn_stock_blocktrade", "cn_stock_chip_race_end"}
NoJobs ==
    /\ job_exists = {}
    /\ job_rows = [table_name \in TableNames |-> {}]
    /\ job_log = << >>

NoCalls ==
    /\ filled = << >>
    /\ client = "None"
    /\ NoQuery
    /\ NoInsert
    /\ NoJobs
    /\ bs_calls = << >>
    /\ refused = ""

Init ==
    /\ NoTasks
    /\ db_engine_module = "importing"
    /\ NoChecks
    /\ NoCalls

\* import_history_modules runs once, when the handler module is imported:
\* db_engine.py is found and loaded, or the global stays None.
import_history_modules ==
    /\ db_engine_module = "importing"
    /\ db_engine_module' \in {"loaded", "None"}
    /\ UNCHANGED <<tasks, wk, resp, queue, checksRunning,
                 checksSubmitted, checkVars>>

\* if db_engine_module:
DbEngineLoaded == db_engine_module = "loaded"

\* ------------------------------------------------------------- submission
\* The handler stores the record, hands the body to the executor and yields
\* on the future it gets back.
SubmitUpTo(rec, bound) ==
    /\ db_engine_module # "importing"
    /\ Len(tasks) < bound
    /\ tasks' = Append(tasks, rec)
    /\ wk' = Append(wk, [NewWorker(Len(rec.missing_stocks))
                            EXCEPT !.waited = (PoolBusy = PoolSize)])
    /\ resp' = Append(resp, "awaiting")
    /\ queue' = Append(queue, Len(tasks) + 1)
    /\ UNCHANGED <<checksRunning, checksSubmitted, db_engine_module, checkVars>>

Submit(rec) == SubmitUpTo(rec, MaxTasks)

\* The request arguments a submission can carry: get_argument(...).strip()
\* is "" for an argument left out, json.loads("[]") an empty list.
CodeArgs == Codes \cup {""}
DateArgs == {"", "2024-01-02"}
MissingDateArgs == { << >>, <<"2024-01-02">> }

\* AnyEmpty refusing only a request with every argument left out.
AnyEmpty_All(args) == \A i \in DOMAIN args : args[i] = ""

\* not a or not b or ...
AnyEmpty(args) == \E i \in DOMAIN args : args[i] = ""

\* write_json({"success": False, "message": ...}); return
Refuse(message) ==
    /\ db_engine_module # "importing"
    /\ refused' = message
    /\ UNCHANGED <<tasks, wk, resp, queue, checksRunning, checksSubmitted, db_engine_module, polled, all_trade_dates, list_date, store, db_client, checked, storeCallVars, bs_calls>>

\* if not stock_code or not start_date or not end_date:
DownloadRefused(stock_code, start_date, end_date) == AnyEmpty(<<stock_code, start_date, end_date>>)

\* handle_download_data, whatever arguments the request carries.
download_request ==
    \E stock_code \in CodeArgs, start_date \in DateArgs, end_date \in DateArgs, write_to_db \in BOOLEAN :
        IF DownloadRefused(stock_code, start_date, end_date)
        THEN Refuse("download_arguments_missing")
        ELSE Submit(NewTask("download", "created", stock_code, write_to_db, << >>))

\* handle_download_data for a request that carries every argument.
handle_download_data ==
    \E stock_code \in Codes, write_to_db \in BOOLEAN :
        Submit(NewTask("download", "created", stock_code, write_to_db, << >>))

\* The future of run_on_executor resolves when the body has returned.
FutureDone(t) == wk[t].pc = "returned"

\* write_json({"success": True, "task_id": task_id, ...}) after the yield.
Respond(t) ==
    /\ resp[t] = "awaiting"
    /\ FutureDone(t)
    /\ resp' = [resp EXCEPT ![t] = "responded"]
    /\ UNCHANGED <<tasks, wk, queue, checksRunning, checksSubmitted,
                 db_engine_module, checkVars>>

\* ------------------------------------------------------------------- pool
\* handle_check_data: a completeness check is one more job of the same pool.
SubmitCheck ==
    /\ db_engine_module # "importing"
    /\ checksSubmitted < MaxChecks
    /\ checksSubmitted' = checksSubmitted + 1
    /\ queue' = Append(queue, 0)
    /\ UNCHANGED <<tasks, wk, resp, checksRunning, db_engine_module, checkVars>>

\* An idle pool thread takes the oldest work item.
StartJob ==
    /\ queue # << >>
    /\ PoolBusy < PoolSize
    /\ queue' = Tail(queue)
    /\ IF Head(queue) = 0
       THEN /\ checksRunning' = checksRunning + 1
            /\ UNCHANGED wk
       ELSE /\ wk' = [wk EXCEPT ![Head(queue)].pc = "entered"]
            /\ UNCHANGED checksRunning
    /\ UNCHANGED <<tasks, resp, checksSubmitted, db_engine_module, checkVars>>

FinishCheck ==
    /\ checksRunning > 0
    /\ checksRunning' = checksRunning - 1
    /\ UNCHANGED <<tasks, wk, resp, queue, checksSubmitted,
                 db_engine_module, checkVars>>

\* ---------------------------------------------------------- worker steps
Frame ==
    UNCHANGED <<resp, queue, checksRunning, checksSubmitted, db_engine_module,
                checkVars>>

\* Write with one record shared by all tasks: the assignment shows in each.
Write_Shared(t, at, key, value, to) ==
    /\ wk[t].pc = at
    /\ tasks' = [u \in DOMAIN tasks |-> [tasks[u] EXCEPT ![key] = value]]
    /\ wk' = [wk EXCEPT ![t].pc = to]
    /\ Frame

\* One assignment self.tasks[task_id][key] = value.
Write(t, at, key, value, to) ==
    /\ wk[t].pc = at
    /\ tasks' = [tasks EXCEPT ![t][key] = value]
    /\ wk' = [wk EXCEPT ![t].pc = to]
    /\ Frame

\* A step that touches no task record.
Goto(t, at, to) ==
    /\ wk[t].pc = at
    /\ wk' = [wk EXCEPT ![t].pc = to]
    /\ UNCHANGED tasks
    /\ Frame

\* An exception raised at `at`, caught by the handler at `to`.
Raise(t, at, cause, to) ==
    /\ wk[t].pc = at
    /\ wk' = [wk EXCEPT ![t].pc = to, ![t].err = cause, ![t].failure = TRUE]
    /\ UNCHANGED tasks
    /\ Frame

\* What a call of the baostock module leaves alone.
sessionFrame == <<resp, queue, checksRunning, checksSubmitted, db_engine_module, polled, all_trade_dates, list_date, store, db_client, checked, storeCallVars, refused>>

\* bs.login(), bs.query_history_k_data_plus() or bs.logout() made by the
\* worker of task t: "login" is a login that succeeded, "login_failed" one
\* that did not, "fetch" the query, "logout" the logout.
Call(t, at, call, to) ==
    /\ wk[t].pc = at
    /\ wk' = [wk EXCEPT ![t].pc = to]
    /\ bs_calls' = Append(bs_calls, <<t, call>>)
    /\ UNCHANGED tasks
    /\ UNCHANGED sessionFrame

\* The same call, answered by an error the caller turns into an exception.
CallRaise(t, at, call, cause, to) ==
    /\ wk[t].pc = at
    /\ wk' = [wk EXCEPT ![t].pc = to, ![t].err = cause, ![t].failure = TRUE]
    /\ bs_calls' = Append(bs_calls, <<t, call>>)
    /\ UNCHANGED tasks
    /\ UNCHANGED sessionFrame

\* ------------------------------------------------- _start_download_task
DownloadConnect(t) ==
    IF ~DbEngineLoaded
    THEN Raise(t, "L979", "module_not_loaded", "L1074")
    ELSE \/ Raise(t, "L979", "no_client", "L1074")
         \/ Goto(t, "L979", "L988")

DownloadQuery(t) ==
    \/ Raise(t, "L1004", "query_raised", "L1074")
    \/ Raise(t, "L1004", "no_rows", "L1074")
    \/ Goto(t, "L1004", "L1031")

DownloadCsv(t) ==
    \/ Raise(t, "L1035", "csv_raised", "L1074")
    \/ Goto(t, "L1035", "L1048")

\* _write_to_database: every outcome ends in message += suffix.
WriteToDatabase(t) ==
    /\ wk[t].pc = "L1055"
    /\ \E outcome \in (IF DbEngineLoaded
                       THEN {"written", "no_client", "insert_raised"}
                       ELSE {"module_not_loaded"}) :
          /\ tasks' = [tasks EXCEPT ![t].message =
                          MsgCause("writing_db", outcome)]
          /\ wk' = [wk EXCEPT ![t].pc = "L1060",
                              ![t].failure = (outcome = "insert_raised")]
    /\ Frame

start_download_task(t) ==
    /\ tasks[t].type = "download"
    /\ \/ Goto(t, "entered", "L972")
       \/ Write(t, "L972", "status", "running", "L973")
       \/ Write(t, "L973", "message", Msg("querying_db"), "L974")
       \/ Write(t, "L974", "progress", 10, "L979")
       \/ DownloadConnect(t)
       \/ Write(t, "L988", "message", Msg("querying"), "L989")
       \/ Write(t, "L989", "progress", 30, "L1004")
       \/ DownloadQuery(t)
       \/ Write(t, "L1031", "message", Msg("generating_csv"), "L1032")
       \/ Write(t, "L1032", "progress", 60, "L1035")
       \/ DownloadCsv(t)
       \/ Write(t, "L1048", "message", Msg("csv_done"), "L1049")
       \/ Write(t, "L1049", "progress", 80,
                IF tasks[t].write_to_db THEN "L1053" ELSE "L1060")
       \/ Write(t, "L1053", "message", Msg("writing_db"), "L1055")
       \/ WriteToDatabase(t)
       \/ Write(t, "L1060", "status", "completed", "L1061")
       \/ Write(t, "L1061", "message", Msg("download_done"), "L1062")
       \/ Write(t, "L1062", "progress", 100, "L1063")
       \/ Write(t, "L1063", "download_url", TRUE, "L1064")
       \/ Write(t, "L1064", "filename", TRUE, "L1065")
       \/ Write(t, "L1065", "record_count", TRUE, "returned")
       \/ Write(t, "L1074", "status", "failed", "L1075")
       \/ Write(t, "L1075", "message", MsgCause("download_failed", wk[t].err), "L1076")
       \/ Write(t, "L1076", "progress", 0, "returned")

\* ----------------------------------------------- _supplement_data_baostock
\* import baostock; bs.login(): a failure here is raised outside the inner
\* try, so no logout follows it.
BaostockLogin(t) ==
    \/ Raise(t, "L1249", "import_failed", "L1339")
    \/ Goto(t, "L1249", "L1256")
    \/ CallRaise(t, "L1256", "login_failed", "login_failed", "L1339")
    \/ Call(t, "L1256", "login", "L1271")

\* bs.query_history_k_data_plus and the collection of its rows.
BaostockQuery(t) ==
    \/ CallRaise(t, "L1276", "fetch", "query_failed", "L1333")
    \/ CallRaise(t, "L1276", "fetch", "no_data", "L1333")
    \/ Call(t, "L1276", "fetch", "L1305")

\* _process_dataframe_for_clickhouse, then the insert into the store.
BaostockStore(t) ==
    \/ Raise(t, "L1309", "process_failed", "L1333")
    \/ IF ~DbEngineLoaded
       THEN Raise(t, "L1309", "module_not_loaded", "L1333")
       ELSE \/ Raise(t, "L1309", "no_client", "L1333")
            \/ Raise(t, "L1309", "insert_raised", "L1333")
            \/ Goto(t, "L1309", "L1321")

\* message = "成功补齐 N 条数据"; return True (the finally still runs).
BaostockSuccess(t) ==
    /\ wk[t].pc = "L1321"
    /\ tasks' = [tasks EXCEPT ![t].message = Msg("rows_supplemented")]
    /\ wk' = [wk EXCEPT ![t].pc = "L1333", ![t].success = TRUE]
    /\ Frame

\* finally: bs.logout(), then either the return or the except clause.
BaostockLogout(t) ==
    Call(t, "L1333", "logout", IF wk[t].success THEN "L1102" ELSE "L1339")

supplement_data_baostock(t) ==
    /\ tasks[t].type = "supplement"
    /\ \/ BaostockLogin(t)
       \/ Write(t, "L1271", "message", Msg("fetching_baostock"), "L1272")
       \/ Write(t, "L1272", "progress", 30, "L1276")
       \/ BaostockQuery(t)
       \/ Write(t, "L1305", "message", Msg("processing"), "L1306")
       \/ Write(t, "L1306", "progress", 70, "L1309")
       \/ BaostockStore(t)
       \/ BaostockSuccess(t)
       \/ BaostockLogout(t)
       \/ Write(t, "L1339", "message", MsgCause("baostock_failed", wk[t].err), "L1102")

\* ------------------------------------------------ _supplement_data_tushare
\* Loading tushare_all.py and building its StockDataFetcher.
TushareInit(t) ==
    \/ Raise(t, "L1379", "import_failed", "L1394")
    \/ Goto(t, "L1379", "L1399")
    \/ Raise(t, "L1399", "init_failed", "L1394")
    \/ Goto(t, "L1399", "L1410")

\* fetcher.fetch_stock_daily
TushareFetch(t) ==
    \/ Raise(t, "L1423", "fetch_raised", "L1471")
    \/ Raise(t, "L1423", "no_data", "L1394")
    \/ Goto(t, "L1423", "L1435")

\* _process_tushare_dataframe_for_clickhouse, then the insert into the store.
TushareStore(t) ==
    \/ Raise(t, "L1439", "process_failed", "L1471")
    \/ IF ~DbEngineLoaded
       THEN Raise(t, "L1439", "module_not_loaded", "L1394")
       ELSE \/ Raise(t, "L1439", "no_client", "L1394")
            \/ Raise(t, "L1439", "insert_raised", "L1471")
            \/ Goto(t, "L1439", "L1452")

TushareSuccess(t) ==
    /\ wk[t].pc = "L1452"
    /\ tasks' = [tasks EXCEPT ![t].message = Msg("rows_supplemented")]
    /\ wk' = [wk EXCEPT ![t].pc = "L1102", ![t].success = TRUE]
    /\ Frame

supplement_data_tushare(t) ==
    /\ tasks[t].type = "supplement"
    /\ \/ TushareInit(t)
       \/ Write(t, "L1394", "message", Msg(wk[t].err), "L1471")
       \/ Write(t, "L1410", "message", Msg("fetching_tushare"), "L1411")
       \/ Write(t, "L1411", "progress", 30, "L1423")
       \/ TushareFetch(t)
       \/ Write(t, "L1435", "message", Msg("processing"), "L1436")
       \/ Write(t, "L1436", "progress", 70, "L1439")
       \/ TushareStore(t)
       \/ TushareSuccess(t)
       \/ Write(t, "L1471", "message", MsgCause("tushare_failed", wk[t].err), "L1102")

\* ------------------------------------------------- _supplement_data_others
\* Only BJ has a provider here; any other market gets the unsupported message.
supplement_data_others(t) ==
    /\ tasks[t].type = "supplement"
    /\ IF GetMarketFromCode(tasks[t].stock_code) = "BJ"
       THEN Goto(t, "L1361", "L1379")
       ELSE Write(t, "L1361", "message", Msg("unsupported_market"), "L1102")

\* ------------------------------------------------- _start_supplement_task
\* SupplementRoute sending every market to baostock.
SupplementRoute_AllBaostock(t) == Goto(t, "L1090", "L1249")

\* if market in ['SH', 'SZ']: baostock, else: the other providers.
SupplementRoute(t) ==
    Goto(t, "L1090",
         IF GetMarketFromCode(tasks[t].stock_code) \in {"SH", "SZ"}
         THEN "L1249" ELSE "L1361")

start_supplement_task(t) ==
    /\ tasks[t].type = "supplement"
    /\ \/ Goto(t, "entered", "L1086")
       \/ Write(t, "L1086", "status", "running", "L1087")
       \/ Write(t, "L1087", "message", Msg("supplementing"), "L1088")
       \/ Write(t, "L1088", "progress", 10, "L1090")
       \/ SupplementRoute(t)
       \/ Goto(t, "L1102", IF wk[t].success THEN "L1103" ELSE "L1108")
       \/ Write(t, "L1103", "status", "completed", "L1104")
       \/ Write(t, "L1104", "message", Msg("supplement_done"), "L1105")
       \/ Write(t, "L1105", "progress", 100, "returned")
       \/ Write(t, "L1108", "status", "failed", "L1109")
       \/ Write(t, "L1109", "message", Msg("supplement_failed"), "returned")

\* if not stock_code or not missing_dates:
SingleRefused(stock_code, missing_dates) == AnyEmpty(<<stock_code>>) \/ missing_dates = << >>

\* handle_supplement_data (single), whatever arguments the request carries.
supplement_request_single ==
    \E stock_code \in CodeArgs, missing_dates \in MissingDateArgs :
        IF SingleRefused(stock_code, missing_dates)
        THEN Refuse("code_or_missing_dates_missing")
        ELSE Submit(NewTask("supplement", "created", stock_code, FALSE, << >>))

\* The same handler for a request that carries every argument.
handle_supplement_single ==
    \E stock_code \in Codes :
        Submit(NewTask("supplement", "created", stock_code, FALSE, << >>))

\* handle_supplement_data (single) called again while earlier single
\* backfills are queued or running, for one code routed to each provider.
handle_supplement_again ==
    \E stock_code \in {"6", "8"} :
        SubmitUpTo(NewTask("supplement", "created", stock_code, FALSE, << >>), MaxBackfills)

\* -------------------------------------------- _start_batch_supplement_task
\* [stock for stock in missing_stocks if stock['market'] == m], as positions.
RECURSIVE StocksOf(_, _, _)
StocksOf(missing_stocks, m, i) ==
    IF i > Len(missing_stocks) THEN << >>
    ELSE (IF missing_stocks[i] = m THEN <<i>> ELSE << >>)
         \o StocksOf(missing_stocks, m, i + 1)

sh_stocks(t) == StocksOf(tasks[t].missing_stocks, "SH", 1)
sz_stocks(t) == StocksOf(tasks[t].missing_stocks, "SZ", 1)
bj_stocks(t) == StocksOf(tasks[t].missing_stocks, "BJ", 1)

\* The two loops visit huashen_stocks = sh_stocks + sz_stocks, then bj_stocks.
VisitOrder(t) == sh_stocks(t) \o sz_stocks(t) \o bj_stocks(t)

total_stocks(t) == Len(tasks[t].missing_stocks)

\* LoopOrFinish with an off-by-one: the last stock of the order is left out.
LoopOrFinish_OffByOne(order, idx) == IF idx < Len(order) THEN "L1157" ELSE "L1197"

\* Where the worker goes once stock number idx - 1 of the visit order is done.
LoopOrFinish(order, idx) == IF idx <= Len(order) THEN "L1157" ELSE "L1197"

\* Lines 1131-1145: the groups are built; the BJ message is written if any.
BatchGroup(t) ==
    /\ wk[t].pc = "L1131"
    /\ wk' = [wk EXCEPT ![t].order = VisitOrder(t),
                        ![t].idx = 1,
                        ![t].pc = LoopOrFinish(VisitOrder(t), 1)]
    /\ tasks' = IF bj_stocks(t) # << >>
                THEN [tasks EXCEPT ![t].message =
                         MsgCount("skipping_bj", Len(bj_stocks(t)), 0)]
                ELSE tasks
    /\ Frame

\* BatchProgress counting the stocks still to do instead of those done.
BatchProgress_Remaining(processed, total) ==
    10 + (((total - processed) * 80) \div total)

\* int(10 + (processed_stocks / total_stocks * 80))
BatchProgress(processed, total) == 10 + ((processed * 80) \div total)

\* The provider routed for one stock of the batch: SH, SZ -> baostock
\* (_supplement_single_stock_baostock), BJ -> tushare
\* (_supplement_single_stock_others); no provider otherwise.
BatchProvider(market_code) ==
    IF market_code \in {"SH", "SZ"} THEN "baostock"
    ELSE IF market_code = "BJ" THEN "tushare"
    ELSE "none"

\* What one provider call can return: both swallow every exception and
\* return False, and neither can store anything without the storage module.
SingleStockOutcomes(provider) ==
    IF provider = "none" \/ ~DbEngineLoaded THEN {FALSE} ELSE BOOLEAN

\* SingleStockCalls without the finally: a call that fails after its login
\* returns without a logout.
SingleStockCalls_NoFinally(provider, success) ==
    IF provider # "baostock" THEN { << >> }
    ELSE IF success THEN { <<"login", "fetch", "logout">> }
    ELSE { << >>, <<"login_failed">>, <<"login", "fetch">> }

\* The baostock calls one _supplement_single_stock_baostock makes before it
\* returns: none if the import fails, a login alone if it fails, and
\* otherwise login, query and (finally) logout, whatever is returned.
SingleStockCalls(provider, success) ==
    IF provider # "baostock" THEN { << >> }
    ELSE IF success THEN { <<"login", "fetch", "logout">> }
    ELSE { << >>, <<"login_failed">>, <<"login", "fetch", "logout">> }

\* Lines 1164-1188: one stock is attempted and tallied.
BatchAttempt(t) ==
    /\ wk[t].pc = "L1167"
    /\ LET i == wk[t].order[wk[t].idx]
           provider == BatchProvider(tasks[t].missing_stocks[i])
       IN \E success \in SingleStockOutcomes(provider) :
          \E calls \in SingleStockCalls(provider, success) :
          /\ bs_calls' = bs_calls \o [k \in 1..Len(calls) |-> <<t, calls[k]>>]
          /\ wk' = [wk EXCEPT
                     ![t].success_count = @ + (IF success THEN 1 ELSE 0),
                     ![t].processed_stocks = @ + 1,
                     ![t].attempts[i] = @ + (IF provider = "none" THEN 0 ELSE 1),
                     ![t].returned_true = @ + (IF success THEN 1 ELSE 0),
                     ![t].failure = @ \/ ~success,
                     ![t].idx = @ + 1,
                     ![t].pc = LoopOrFinish(wk[t].order, wk[t].idx + 1)]
    /\ UNCHANGED tasks
    /\ UNCHANGED sessionFrame

\* Lines 1194-1226: the three-way outcome, per mix of markets.
BatchOutcome(success_count, denominator) ==
    IF success_count = denominator THEN "complete"
    ELSE IF success_count > 0 THEN "partial"
    ELSE "failed"

\* The count the final message compares and reports success_count against.
BatchDenominator(t) ==
    LET huashen_count == Len(sh_stocks(t)) + Len(sz_stocks(t))
        bj_count == Len(bj_stocks(t))
    IN IF bj_count > 0 /\ huashen_count > 0 THEN total_stocks(t)
       ELSE IF bj_count > 0 THEN bj_count
       ELSE total_stocks(t)

\* BatchFinalStatus putting a batch without any success back to Pending.
BatchFinalStatus_Requeue(t) ==
    IF BatchOutcome(wk[t].success_count, BatchDenominator(t)) = "failed"
    THEN "pending" ELSE "completed"

BatchFinalStatus(t) ==
    IF BatchOutcome(wk[t].success_count, BatchDenominator(t)) = "failed"
    THEN "failed" ELSE "completed"

BatchFinalMessage(t) ==
    LET outcome == BatchOutcome(wk[t].success_count, BatchDenominator(t))
    IN MsgCount(outcome,
                IF outcome = "failed" THEN 0 ELSE wk[t].success_count,
                BatchDenominator(t))

start_batch_supplement_task(t) ==
    /\ tasks[t].type = "batch_supplement"
    /\ \/ Goto(t, "entered", "L1127")
       \/ Write(t, "L1127", "status", "running", "L1128")
       \/ Write(t, "L1128", "message", Msg("batch_supplementing"), "L1129")
       \/ Write(t, "L1129", "progress", 10, "L1131")
       \/ BatchGroup(t)
       \/ Write(t, "L1157", "message", Msg("supplementing_stock"), "L1159")
       \/ Write(t, "L1159", "progress",
                BatchProgress(wk[t].processed_stocks, total_stocks(t)), "L1167")
       \/ BatchAttempt(t)
       \/ Write(t, "L1197", "status", BatchFinalStatus(t), "L1198")
       \/ Write(t, "L1198", "message", BatchFinalMessage(t), "L1228")
       \/ Write(t, "L1228", "progress", 100, "L1229")
       \/ Write(t, "L1229", "success_count", wk[t].success_count, "L1230")
       \/ Write(t, "L1230", "total_count", total_stocks(t), "returned")

\* Every non-empty missing_stocks list of at most MaxStocks entries; an entry
\* is its 'market', and is identified by its position in the list.
RECURSIVE StockLists(_)
StockLists(n) ==
    IF n = 0 THEN { << >> }
    ELSE StockLists(n - 1)
         \cup { Append(l, m) : l \in { x \in StockLists(n - 1) : Len(x) = n - 1 },
                               m \in Markets }

MissingStockLists == StockLists(MaxStocks) \ { << >> }

\* if not start_date or not end_date or not missing_stocks:
BatchRefused(start_date, end_date, missing_stocks) == AnyEmpty(<<start_date, end_date>>) \/ missing_stocks = << >>

\* handle_supplement_data (batch), whatever arguments the request carries.
supplement_request_batch ==
    \E start_date \in DateArgs, end_date \in DateArgs, missing_stocks \in MissingStockLists \cup { << >> } :
        IF BatchRefused(start_date, end_date, missing_stocks)
        THEN Refuse("dates_or_stocks_missing")
        ELSE Submit(NewTask("batch_supplement", "batch_created", "", FALSE, missing_stocks))

\* The same handler for a request that carries every argument.
handle_supplement_batch ==
    \E missing_stocks \in MissingStockLists :
        Submit(NewTask("batch_supplement", "batch_created", "", FALSE, missing_stocks))

\* ------------------------------------------------------ handle_get_task_status
\* The poll answers with the task record as it is at that moment; an unknown
\* task_id is answered with "not found" and no record.
handle_get_task_status ==
    \E task_id \in 1..MaxTasks :
        /\ polled' = IF task_id \in TaskIds THEN <<tasks[task_id]>> ELSE << >>
        /\ UNCHANGED <<tasks, wk, resp, queue, checksRunning, checksSubmitted,
                       db_engine_module, all_trade_dates, list_date, store,
                       db_client, checked, clientVars>>

\* ---------------------------------------------------- completeness checks
Dates == 1..MaxDate                 \* calendar days, in order
Instruments == 1..MaxInstruments    \* the (code, market) pairs there are
NoDate == 0                         \* ipo_date = None

\* date.strftime('%Y-%m-%d') and datetime.strptime(s, '%Y-%m-%d').date()
strftime(date) == <<"%Y-%m-%d", date>>
strptime(date_string) == date_string[2]

\* What create_clickhouse_client() and client.query() can do.
ClientOutcomes == {"ok", "None", "create_raises", "query_raises"}

\* fetcher.get_stock_list(...) gave a table, and it has a list_date for
\* the code; every failure on the way leaves ipo_date = None.
IpoDate(stock_code) ==
    IF stock_code \in DOMAIN list_date THEN list_date[stock_code] ELSE NoDate

\* actual_start_date = max(start_date_obj, ipo_date), or start_date_obj
ActualStart(start_date, ipo_date) ==
    IF ipo_date # NoDate /\ ipo_date > start_date THEN ipo_date ELSE start_date

\* ExpectedDates that takes every day of the range for a trading day.
ExpectedDates_EveryDay(from_date, end_date) ==
    {strftime(date) : date \in {q \in Dates :
                                    from_date <= q /\ q <= end_date}}

\* expected_dates: the calendar dates of [from_date, end_date], formatted.
ExpectedDates(from_date, end_date) ==
    {strftime(date) : date \in {q \in all_trade_dates :
                                    from_date <= q /\ q <= end_date}}

\* SELECT date FROM cn_stock_history WHERE code = .. AND market = ..
\*   AND date >= .. AND date <= ..: the rows <<code, date, copy>> it returns.
ExistingRows(stock_code, from_date, end_date) ==
    {row \in store :
        row[1] = stock_code /\ from_date <= row[2] /\ row[2] <= end_date}

\* existing_dates: the returned rows as the code formats them.
ExistingDates(stock_code, from_date, end_date) ==
    {strftime(row[2]) : row \in ExistingRows(stock_code, from_date, end_date)}

\* round(x / y * 100, 2) in hundredths of a percent, and 0 when y is 0.
Completeness(x, y) ==
    IF y > 0 THEN (x * 20000 + y) \div (2 * y) ELSE 0

\* The try block of lines 493-536: <<existing_count, missing_dates, queries>>.
StoreLookup(stock_code, from_date, end_date, expected_dates) ==
    IF ~DbEngineLoaded \/ db_client = "create_raises"
    THEN <<0, expected_dates, << >> >>
    ELSE IF db_client = "None"
    THEN <<0, {}, << >> >>
    ELSE IF db_client = "query_raises"
    THEN <<0, expected_dates, <<"dates">> >>
    ELSE LET existing_dates == ExistingDates(stock_code, from_date, end_date)
         IN  << Cardinality(ExistingRows(stock_code, from_date, end_date)),
                expected_dates \ existing_dates, <<"dates">> >>

\* _check_data_completeness without the early return of lines 461-477.
check_data_completeness_NoEarlyReturn(stock_code, start_date, end_date) ==
    LET ipo_date == IpoDate(stock_code)
        actual_start_date == ActualStart(start_date, ipo_date)
        expected_dates == ExpectedDates(actual_start_date, end_date)
        found == StoreLookup(stock_code, actual_start_date, end_date,
                             expected_dates)
        total_expected == Cardinality(expected_dates)
        missing_count == Cardinality(found[2])
    IN  Report(total_expected, found[1], missing_count,
               Completeness(total_expected - missing_count, total_expected),
               found[2], "", found[3])

\* _check_data_completeness (lines 410-569), the calendar being available.
check_data_completeness(stock_code, start_date, end_date) ==
    LET ipo_date == IpoDate(stock_code)
        actual_start_date == ActualStart(start_date, ipo_date)
        expected_dates == ExpectedDates(actual_start_date, end_date)
        found == StoreLookup(stock_code, actual_start_date, end_date,
                             expected_dates)
        total_expected == Cardinality(expected_dates)
        missing_count == Cardinality(found[2])
    IN  IF ipo_date # NoDate /\ actual_start_date > end_date
        THEN Report(0, 0, 0, 10000, {}, "listed_after_range", << >>)
        ELSE Report(total_expected, found[1], missing_count,
                    Completeness(total_expected - missing_count, total_expected),
                    found[2],
                    IF ipo_date # NoDate /\ actual_start_date > start_date
                    THEN "start_adjusted" ELSE "",
                    found[3])

\* handle_check_data, check_scope == "single".  The checks keep nothing from
\* one request to the next, so a behaviour follows one request.
handle_check_single ==
    /\ checked = << >>
    /\ \E stock_code \in Instruments, start_date \in Dates, end_date \in Dates :
          checked' = << CheckDone(stock_code, "single", start_date, end_date,
                           check_data_completeness(stock_code, start_date,
                                                   end_date)) >>
    /\ UNCHANGED <<tasks, wk, resp, queue, checksRunning, checksSubmitted,
                   db_engine_module, polled, all_trade_dates, list_date,
                   store, db_client, clientVars>>

\* -------------------------------------------- _check_batch_data_completeness
\* _get_stock_list, market "ALL": <<codes, queries issued>>.  The codes come
\* from SELECT DISTINCT code, market ... ORDER BY market, code, and from
\* code_map.csv when the store gives none.
get_stock_list ==
    LET code_map == [code \in Instruments |-> code]
        stored == SelectSeq(code_map,
                            LAMBDA code : \E row \in store : row[1] = code)
    IN  IF ~DbEngineLoaded \/ db_client = "None" THEN <<code_map, << >> >>
        ELSE IF db_client = "create_raises" THEN << << >>, << >> >>
        ELSE IF db_client = "query_raises" \/ stored = << >>
        THEN <<code_map, <<"list">> >>
        ELSE <<stored, <<"list">> >>

\* _get_stock_list_with_ipo_date: with the stock_basic table, the codes that
\* have a list_date in it; without it, every code with ipo_date None.
get_stock_list_with_ipo_date ==
    LET listed == get_stock_list
        known == SelectSeq(listed[1], LAMBDA code : IpoDate(code) # NoDate)
    IN  IF DOMAIN list_date # {}
        THEN <<[k \in DOMAIN known |-> StockInfo(known[k], IpoDate(known[k]))],
               listed[2]>>
        ELSE <<[k \in DOMAIN listed[1] |-> StockInfo(listed[1][k], NoDate)],
               listed[2]>>

\* A batch that asks the store for the dates of each stock in turn.
BatchQueries_PerStock(stock_list) == [k \in DOMAIN stock_list |-> "dates"]

\* The batch query and nothing else, whatever the length of stock_list.
BatchQueries(stock_list) == <<"aggregate">>

\* SELECT code, market, COUNT(*) ... WHERE date >= start AND date <= end
\* GROUP BY code, market; stock_data_count.get(stock_key, 0)
StockDataCount(code, start_date, end_date) ==
    Cardinality({row \in store :
        row[1] = code /\ start_date <= row[2] /\ row[2] <= end_date})

\* A loop that skips no stock.
BatchSkips_Never(stock_info, start_date, end_date) == FALSE

\* lines 669-681: stock_start_date = max(start, ipo) is after end: continue
BatchSkips(stock_info, start_date, end_date) ==
    /\ stock_info.ipo_date # NoDate
    /\ ActualStart(start_date, stock_info.ipo_date) > end_date

\* lines 669-685: stock_expected_days
StockExpectedDays(stock_info, start_date, end_date) ==
    IF stock_info.ipo_date # NoDate
    THEN Cardinality({date \in ExpectedDates(start_date, end_date) :
            strptime(date) >= ActualStart(start_date, stock_info.ipo_date)})
    ELSE Cardinality(ExpectedDates(start_date, end_date))

\* BatchBand with the partial band starting above 50 instead of at 50.
BatchBand_StrictHalf(existing_count, stock_expected_days) ==
    IF stock_expected_days > 0 /\ existing_count * 100 >= 99 * stock_expected_days
    THEN 1
    ELSE IF stock_expected_days > 0
            /\ existing_count * 100 > 50 * stock_expected_days
    THEN 2
    ELSE 3

\* lines 691-699: the band of a stock, 1 complete, 2 partial, 3 severe, from
\* completeness = existing / expected * 100 (0 when nothing is expected).
BatchBand(existing_count, stock_expected_days) ==
    IF stock_expected_days > 0 /\ existing_count * 100 >= 99 * stock_expected_days
    THEN 1
    ELSE IF stock_expected_days > 0
            /\ existing_count * 100 >= 50 * stock_expected_days
    THEN 2
    ELSE 3

\* lines 661-716 for stock_list[k..]: <<bands, results>> after the loop.
RECURSIVE BatchLoop(_, _, _, _, _, _)
BatchLoop(stock_list, k, start_date, end_date, bands, results) ==
    IF k > Len(stock_list) THEN <<bands, results>>
    ELSE LET stock_info == stock_list[k]
             stock_expected_days ==
                 StockExpectedDays(stock_info, start_date, end_date)
             existing_count ==
                 StockDataCount(stock_info.code, start_date, end_date)
             missing_count == stock_expected_days - existing_count
             band == BatchBand(existing_count, stock_expected_days)
         IN  IF BatchSkips(stock_info, start_date, end_date)
             THEN BatchLoop(stock_list, k + 1, start_date, end_date,
                            bands, results)
             ELSE BatchLoop(stock_list, k + 1, start_date, end_date,
                     [bands EXCEPT ![band] = @ + 1],
                     IF missing_count > 0
                     THEN Append(results,
                             ResultItem(stock_info.code, stock_expected_days,
                                 existing_count, missing_count,
                                 Completeness(existing_count,
                                              stock_expected_days)))
                     ELSE results)

\* The detail list left in stock_list order.
SortByCompleteness_Unsorted(results) == results

\* results.sort(key=lambda x: x['completeness']): ascending and stable.
RECURSIVE SortByCompleteness(_)
SortByCompleteness(results) ==
    IF results = << >> THEN << >>
    ELSE LET first == Head(results)
             rest == SortByCompleteness(Tail(results))
         IN  SelectSeq(rest, LAMBDA x : x.completeness < first.completeness)
             \o <<first>>
             \o SelectSeq(rest, LAMBDA x : x.completeness >= first.completeness)

\* _check_batch_data_completeness (lines 571-771), check_scope "all".
check_batch_data_completeness(start_date, end_date) ==
    LET total_expected_days == Cardinality(ExpectedDates(start_date, end_date))
        listing == get_stock_list_with_ipo_date
        stock_list == listing[1]
        Failed(message, queries) ==
            BatchReport(message, FALSE, 0, <<0, 0, 0>>, << >>,
                        total_expected_days, queries)
        looped == BatchLoop(stock_list, 1, start_date, end_date,
                            <<0, 0, 0>>, << >>)
    IN  IF stock_list = << >> THEN Failed("no_stock_list", listing[2])
        ELSE IF ~DbEngineLoaded THEN Failed("db_engine_not_loaded", listing[2])
        ELSE IF db_client = "None" THEN Failed("cannot_connect", listing[2])
        ELSE IF db_client = "create_raises" THEN Failed("raised", listing[2])
        ELSE IF db_client = "query_raises"
        THEN Failed("raised", listing[2] \o BatchQueries(stock_list))
        ELSE BatchReport("", TRUE, Len(stock_list), looped[1],
                         SortByCompleteness(looped[2]), total_expected_days,
                         listing[2] \o BatchQueries(stock_list))

\* handle_check_data, check_scope "all".
handle_check_batch ==
    /\ checked = << >>
    /\ \E start_date \in Dates, end_date \in Dates :
          checked' = << CheckDone(0, "all", start_date, end_date,
                           check_batch_data_completeness(start_date,
                                                         end_date)) >>
    /\ UNCHANGED <<tasks, wk, resp, queue, checksRunning, checksSubmitted,
                   db_engine_module, polled, all_trade_dates, list_date,
                   store, db_client, clientVars>>

\* ------------------------------------------------- writes to cn_stock_history
\* What a task leaves alone when it writes to the store.  (The task record it
\* keeps meanwhile is the subject of the worker steps above; here a task is
\* its request, what the provider answered, the rows it inserted and the
\* status it ended with.)
writeFrame == <<tasks, wk, resp, queue, checksRunning, checksSubmitted,
                db_engine_module, polled, all_trade_dates, list_date,
                db_client, checked, client, queryVars, insertVars, jobVars,
                bs_calls, refused>>

\* The rows of cn_stock_history with this key.
CopiesOf(code, date) ==
    Cardinality({row \in store : row[1] = code /\ row[2] = date})

\* client.insert_df('cn_stock_history', df): every row of df is appended,
\* whatever the table holds.  rows: <<code, date, k>> for the k-th row of df
\* with that key.
insert_df(rows) ==
    store \cup {<<row[1], row[2], row[3] + CopiesOf(row[1], row[2])>> :
                   row \in rows}

\* The DataFrame built from what bs.query_history_k_data_plus returned.
ProviderFrame(stock_code, answer) == {<<stock_code, date, 1>> : date \in answer}

\* What the provider can answer for start_date=min_date, end_date=max_date:
\* rows for any of the days in between, none included.
ProviderAnswers(min_date, max_date) == SUBSET (min_date..max_date)

\* min(missing_dates), max(missing_dates)
MinDate(missing_dates) ==
    CHOOSE d \in missing_dates : \A e \in missing_dates : strptime(d) <= strptime(e)
MaxDateOf(missing_dates) ==
    CHOOSE d \in missing_dates : \A e \in missing_dates : strptime(e) <= strptime(d)

\* One task that reached its end: what it was, the stock, what was asked for,
\* the dates of the rows it inserted, its final status, and the number of
\* completeness checks answered before it.
Filled(kind, stock_code, asked, written, status) ==
    Append(filled, <<kind, stock_code, asked, written, status, Len(checked)>>)

\* A single backfill from submission to its final status
\* (handle_supplement_data, _start_supplement_task, _supplement_data_baostock):
\* the provider is asked for [min(missing_dates), max(missing_dates)], an
\* empty answer or any failure raises and the task fails with nothing
\* written, otherwise every row of the answer is inserted and the task
\* completes.
SingleBackfill ==
    /\ Len(filled) < MaxWrites
    /\ \E stock_code \in Instruments,
          missing_dates \in (SUBSET {strftime(d) : d \in Dates}) \ {{}} :
          \E answer \in ProviderAnswers(strptime(MinDate(missing_dates)),
                                        strptime(MaxDateOf(missing_dates))),
             raises \in BOOLEAN :
             IF raises \/ answer = {}
             THEN /\ filled' = Filled("supplement", stock_code, missing_dates,
                                      {}, "failed")
                  /\ UNCHANGED store
             ELSE /\ store' = insert_df(ProviderFrame(stock_code, answer))
                  /\ filled' = Filled("supplement", stock_code, missing_dates,
                                      answer, "completed")
    /\ UNCHANGED writeFrame

\* One stock of a batch backfill (_supplement_single_stock_baostock): the
\* provider is asked for the batch's [start_date, end_date].
BatchBackfillStock ==
    /\ Len(filled) < MaxWrites
    /\ \E stock_code \in Instruments, start_date \in Dates, end_date \in Dates :
          \E answer \in ProviderAnswers(start_date, end_date),
             raises \in BOOLEAN :
             IF raises \/ answer = {}
             THEN /\ filled' = Filled("batch_supplement", stock_code,
                                      <<start_date, end_date>>, {}, "failed")
                  /\ UNCHANGED store
             ELSE /\ store' = insert_df(ProviderFrame(stock_code, answer))
                  /\ filled' = Filled("batch_supplement", stock_code,
                                      <<start_date, end_date>>, answer,
                                      "completed")
    /\ UNCHANGED writeFrame

\* A download with write_to_db (handle_download_data, _start_download_task,
\* _write_to_database): the rows of the stock in [start_date, end_date] are
\* read; none fails the task; otherwise they are inserted again, and a
\* failure of that is swallowed into the message.
DownloadWriteBack ==
    /\ Len(filled) < MaxWrites
    /\ \E stock_code \in Instruments, start_date \in Dates, end_date \in Dates :
          LET result == ExistingRows(stock_code, start_date, end_date)
          IN  IF result = {}
              THEN /\ filled' = Filled("download", stock_code,
                                       <<start_date, end_date>>, {}, "failed")
                   /\ UNCHANGED store
              ELSE \E written \in BOOLEAN :
                     /\ store' = IF written THEN insert_df(result) ELSE store
                     /\ filled' = Filled("download", stock_code,
                                         <<start_date, end_date>>,
                                         IF written
                                         THEN {row[2] : row \in result}
                                         ELSE {},
                                         "completed")
    /\ UNCHANGED writeFrame

\* The single check asked again with the arguments of the first request.
handle_check_again ==
    /\ Len(checked) = 1
    /\ checked[1].check_scope = "single"
    /\ checked' = Append(checked,
           CheckDone(checked[1].stock_code, "single", checked[1].start_date,
                     checked[1].end_date,
                     check_data_completeness(checked[1].stock_code,
                         checked[1].start_date, checked[1].end_date)))
    /\ UNCHANGED <<tasks, wk, resp, queue, checksRunning, checksSubmitted,
                   db_engine_module, polled, all_trade_dates, list_date,
                   store, db_client, clientVars>>

\* -------------------------------------------------- ClickHouseClient (lib)
\* What the handler state is to ClickHouseClient: left alone.
handlerVars == <<tasks, wk, resp, queue, checksRunning, checksSubmitted,
                 db_engine_module, polled, all_trade_dates, list_date, store,
                 db_client, checked, filled, jobVars, bs_calls, refused>>

\* What self.client.query can do: answer, or raise an exception, given as
\* <<what went wrong, the words of str(e)>>.
Result == <<"result", << >> >>
Errors ==
    { <<"service unavailable", <<"HTTP", "503">> >>,
      <<"service unavailable", <<"Service Unavailable">> >>,
      <<"syntax error", <<"Syntax error">> >>,
      <<"syntax error", <<"Syntax error", "position", "503">> >> }

\* "503" in str(e) or "Service Unavailable" in str(e)
Retried(e) ==
    \/ \E k \in DOMAIN e[2] : e[2][k] = "503"
    \/ \E k \in DOMAIN e[2] : e[2][k] = "Service Unavailable"

\* execute_query up to the loop: None at once without a connection.
execute_query ==
    /\ query_call = "idle"
    /\ IF client = "None"
       THEN /\ query_call' = "returned"
            /\ query_ret' = <<"None">>
       ELSE /\ query_call' = "L95"
            /\ UNCHANGED query_ret
    /\ UNCHANGED <<attempt, retry_delay, query_outcomes, slept>>
    /\ UNCHANGED <<handlerVars, client, insertVars>>

\* One pass of `for attempt in range(max_retries)`.
query_attempt ==
    /\ query_call = "L95"
    /\ \E outcome \in {Result} \cup Errors :
          /\ query_outcomes' = Append(query_outcomes, outcome)
          /\ IF outcome = Result
             THEN /\ query_call' = "returned"
                  /\ query_ret' = <<"result">>
                  /\ UNCHANGED <<attempt, retry_delay, slept>>
             ELSE IF Retried(outcome) /\ attempt < max_retries - 1
             THEN /\ slept' = Append(slept, retry_delay)
                  /\ retry_delay' = retry_delay * 2
                  /\ attempt' = attempt + 1
                  /\ UNCHANGED <<query_call, query_ret>>
             ELSE /\ query_call' = "returned"
                  /\ query_ret' = <<"None">>
                  /\ UNCHANGED <<attempt, retry_delay, slept>>
    /\ UNCHANGED <<handlerVars, client, insertVars>>

\* The DataFrames of the model: rows 1..total_rows, in index order.
Rows(total_rows) == [k \in 1..total_rows |-> k]

\* insert_dataframe without the test of df.empty.
InsertDataframe_NoEmptyTest(rows, succeeds) ==
    IF client = "None" THEN <<FALSE, inserted, table>>
    ELSE <<succeeds, Append(inserted, <<rows, succeeds>>),
           IF succeeds THEN table \o rows ELSE table>>

\* insert_dataframe that logs the exception and returns True all the same.
InsertDataframe_Swallow(rows, succeeds) ==
    IF rows = << >> THEN <<TRUE, inserted, table>>
    ELSE IF client = "None" THEN <<TRUE, inserted, table>>
    ELSE <<TRUE, Append(inserted, <<rows, succeeds>>),
           IF succeeds THEN table \o rows ELSE table>>

\* insert_dataframe(table_name, rows): <<what it returns, the insert_df calls
\* after it, the table after it>>.  Without a connection self.client.insert_df
\* raises before any call; a call that raises writes nothing.
InsertDataframe(rows, succeeds) ==
    IF rows = << >> THEN <<TRUE, inserted, table>>
    ELSE IF client = "None" THEN <<FALSE, inserted, table>>
    ELSE <<succeeds, Append(inserted, <<rows, succeeds>>),
           IF succeeds THEN table \o rows ELSE table>>

insert_dataframe ==
    /\ insert_call = "idle"
    /\ \E total_rows \in 0..MaxRows, succeeds \in BOOLEAN :
          LET done == InsertDataframe(Rows(total_rows), succeeds)
          IN  /\ df' = Rows(total_rows)
              /\ insert_ret' = <<done[1]>>
              /\ inserted' = done[2]
              /\ table' = done[3]
    /\ method' = "insert_dataframe"
    /\ insert_call' = "returned"
    /\ UNCHANGED <<batch_size, batch_start, successful_batches>>
    /\ UNCHANGED <<handlerVars, client, queryVars>>

\* batch_insert_dataframe up to the loop.
batch_insert_dataframe ==
    /\ insert_call = "idle"
    /\ \E total_rows \in 0..MaxRows, size \in 1..MaxBatch :
          /\ df' = Rows(total_rows)
          /\ batch_size' = size
          /\ IF total_rows = 0
             THEN /\ insert_call' = "returned"
                  /\ insert_ret' = <<TRUE>>
             ELSE /\ insert_call' = "L242"
                  /\ UNCHANGED insert_ret
    /\ method' = "batch_insert_dataframe"
    /\ UNCHANGED <<batch_start, successful_batches, inserted, table>>
    /\ UNCHANGED <<handlerVars, client, queryVars>>

\* df.iloc[i:i + batch_size] that takes row i + batch_size as well.
BatchDf_Inclusive(rows, from, size) ==
    SubSeq(rows, from + 1,
           IF from + size + 1 < Len(rows) THEN from + size + 1 ELSE Len(rows))

\* df.iloc[i:i + batch_size]
BatchDf(rows, from, size) ==
    SubSeq(rows, from + 1,
           IF from + size < Len(rows) THEN from + size ELSE Len(rows))

\* One pass of `for i in range(0, total_rows, batch_size)`, or its end.
batch_insert_step ==
    /\ insert_call = "L242"
    /\ IF batch_start >= Len(df)
       THEN /\ insert_call' = "returned"
            /\ insert_ret' = <<TRUE>>
            /\ UNCHANGED <<batch_start, successful_batches, inserted, table>>
       ELSE \E succeeds \in BOOLEAN :
              LET done == InsertDataframe(BatchDf(df, batch_start, batch_size),
                                          succeeds)
              IN  /\ inserted' = done[2]
                  /\ table' = done[3]
                  /\ IF done[1]
                     THEN /\ successful_batches' = successful_batches + 1
                          /\ batch_start' = batch_start + batch_size
                          /\ UNCHANGED <<insert_call, insert_ret>>
                     ELSE /\ insert_call' = "returned"
                          /\ insert_ret' = <<FALSE>>
                          /\ UNCHANGED <<batch_start, successful_batches>>
    /\ UNCHANGED <<method, df, batch_size>>
    /\ UNCHANGED <<handlerVars, client, queryVars>>

\* ------------------------------------ basic_data_after_close_daily_job.py
\* What the daily job leaves alone.
jobFrame == <<tasks, wk, resp, queue, checksRunning, checksSubmitted,
              db_engine_module, polled, all_trade_dates, list_date, store,
              db_client, checked, filled, client, queryVars, insertVars,
              bs_calls, refused>>

\* A save that keeps the old rows of the date.
DeleteOld_Keep(rows, date) == rows

\* DELETE FROM `table_name` where `date` = 'date'
DeleteOld(rows, date) == {row \in rows : row[1] # date}

\* insert_db_from_df(data, table_name, cols_type, False, "`date`,`code`"):
\* the rows of data are added to the rows the table holds.
InsertDbFromDf(rows, date, data) ==
    rows \cup {<<date, code,
                 1 + Cardinality({row \in rows : row[1] = date /\ row[2] = code})>> :
                 code \in data}

\* One run of a save function for a date: the fetch gives the rows of the
\* codes in data, or nothing, or raises; a statement that raises ends the run
\* in the except clause.  The run is logged as <<table, date, data, the
\* statements issued, what raised>>.
Save(table_name) ==
    /\ Len(job_log) < MaxRuns
    /\ \E date \in Dates, data \in SUBSET Instruments,
          raises \in {"nothing", "fetch", "delete", "insert"} :
          LET Log(statements) ==
                  Append(job_log, <<table_name, date, data, statements, raises>>)
              kept == IF table_name \in job_exists
                      THEN DeleteOld(job_rows[table_name], date)
                      ELSE job_rows[table_name]
          IN  IF raises = "fetch" \/ data = {}
              THEN /\ raises \in {"nothing", "fetch"}
                   /\ job_log' = Log(<< >>)
                   /\ UNCHANGED <<job_exists, job_rows>>
              ELSE IF raises = "delete"
              THEN /\ table_name \in job_exists
                   /\ job_log' = Log(<<"DELETE">>)
                   /\ UNCHANGED <<job_exists, job_rows>>
              ELSE IF raises = "insert"
              THEN /\ job_log' = Log(IF table_name \in job_exists
                                     THEN <<"DELETE", "INSERT">>
                                     ELSE <<"INSERT">>)
                   /\ job_rows' = [job_rows EXCEPT ![table_name] = kept]
                   /\ UNCHANGED job_exists
              ELSE /\ job_log' = Log(IF table_name \in job_exists
                                     THEN <<"DELETE", "INSERT">>
                                     ELSE <<"INSERT">>)
                   /\ job_rows' = [job_rows EXCEPT ![table_name] =
                                      InsertDbFromDf(kept, date, data)]
                   /\ job_exists' = job_exists \cup {table_name}
    /\ UNCHANGED jobFrame

save_after_close_stock_blocktrade_data == Save("cn_stock_blocktrade")

save_after_close_stock_chip_race_end_data == Save("cn_stock_chip_race_end")

\* ------------------------------------------------------------------ program
Next ==
    \/ import_history_modules
    \/ handle_download_data
    \/ handle_supplement_single
    \/ handle_supplement_batch
    \/ StartJob
    \/ \E t \in TaskIds : start_download_task(t)
    \/ \E t \in TaskIds : start_supplement_task(t)
    \/ \E t \in TaskIds : supplement_data_baostock(t)
    \/ \E t \in TaskIds : supplement_data_others(t)
    \/ \E t \in TaskIds : supplement_data_tushare(t)
    \/ \E t \in TaskIds : start_batch_supplement_task(t)
    \/ \E t \in TaskIds : Respond(t)

Spec == Init /\ [][Next]_vars

\* Every step the worker thread of task t can take.
WorkerStep(t) ==
    /\ t \in TaskIds
    /\ \/ start_download_task(t)
       \/ start_supplement_task(t)
       \/ supplement_data_baostock(t)
       \/ supplement_data_others(t)
       \/ supplement_data_tushare(t)
       \/ start_batch_supplement_task(t)

\* The same program with the submissions that leave arguments out.
NextSubmit ==
    \/ import_history_modules
    \/ download_request
    \/ supplement_request_single
    \/ supplement_request_batch
    \/ StartJob
    \/ \E t \in TaskIds : WorkerStep(t)
    \/ \E t \in TaskIds : Respond(t)

SubmitSpec == Init /\ [][NextSubmit]_vars

\* Single backfills submitted one after another and run by the pool side by
\* side, with status polls between any two steps.
NextPair ==
    \/ import_history_modules
    \/ handle_supplement_again
    \/ handle_get_task_status
    \/ StartJob
    \/ \E t \in TaskIds : start_supplement_task(t)
    \/ \E t \in TaskIds : supplement_data_baostock(t)
    \/ \E t \in TaskIds : supplement_data_others(t)
    \/ \E t \in TaskIds : supplement_data_tushare(t)
    \/ \E t \in TaskIds : Respond(t)

PairSpec == Init /\ [][NextPair]_vars

\* The same program with completeness checks competing for the pool.
NextPool ==
    \/ Next
    \/ SubmitCheck
    \/ FinishCheck

PoolSpec == Init /\ [][NextPool]_vars

\* Threads are scheduled fairly and every store or provider call returns or
\* raises: a pool thread that can take a job takes it, a running check
\* finishes, and a worker that can take its next step takes it.
FairPoolSpec ==
    /\ PoolSpec
    /\ WF_vars(StartJob)
    /\ WF_vars(FinishCheck)
    /\ \A t \in 1..MaxTasks : WF_vars(WorkerStep(t))

\* The task program with status polls between any two steps.
NextPoll ==
    \/ Next
    \/ handle_get_task_status

PollSpec == Init /\ [][NextPoll]_vars

\* The completeness checks, for every calendar, registry, store content and
\* store behaviour within the bounds.
CheckInit ==
    /\ NoTasks
    /\ polled = << >>
    /\ checked = << >>
    /\ db_engine_module \in {"loaded", "None"}
    /\ db_client \in IF DbEngineLoaded THEN ClientOutcomes ELSE {"ok"}
    /\ all_trade_dates \in SUBSET Dates
    /\ list_date \in {<< >>} \cup [Instruments -> Dates \cup {NoDate}]
    /\ store \in SUBSET (Instruments \X Dates \X {1})
    /\ NoCalls

CheckNext ==
    \/ handle_check_single
    \/ handle_check_batch

CheckSpec == CheckInit /\ [][CheckNext]_vars

\* Backfills, downloads with write_to_db and single checks in any order, on
\* an empty table, with every day a trading day, no listing dates, and the
\* store answering the checks.
StoreInit ==
    /\ NoTasks
    /\ polled = << >>
    /\ checked = << >>
    /\ db_engine_module = "loaded"
    /\ db_client = "ok"
    /\ all_trade_dates = Dates
    /\ list_date = << >>
    /\ store = {}
    /\ NoCalls

StoreNext ==
    \/ SingleBackfill
    \/ BatchBackfillStock
    \/ DownloadWriteBack
    \/ handle_check_single
    \/ handle_check_again

StoreSpec == StoreInit /\ [][StoreNext]_vars

\* The daily job run for any dates and any fetched data, the tables being
\* there already (empty) or not.
JobInit ==
    /\ NoTasks
    /\ db_engine_module = "loaded"
    /\ NoChecks
    /\ filled = << >>
    /\ client = "None"
    /\ NoQuery
    /\ NoInsert
    /\ job_exists \in SUBSET TableNames
    /\ job_rows = [table_name \in TableNames |-> {}]
    /\ job_log = << >>
    /\ bs_calls = << >>
    /\ refused = ""

JobNext ==
    \/ save_after_close_stock_blocktrade_data
    \/ save_after_close_stock_chip_race_end_data

JobSpec == JobInit /\ [][JobNext]_vars

\* A ClickHouseClient after __init__, connected or not, and one query and one
\* insert made through it.
ClientInit ==
    /\ NoTasks
    /\ db_engine_module = "loaded"
    /\ NoChecks
    /\ filled = << >>
    /\ client \in {"connected", "None"}
    /\ NoQuery
    /\ NoInsert
    /\ NoJobs
    /\ bs_calls = << >>
    /\ refused = ""

ClientNext ==
    \/ execute_query
    \/ query_attempt
    \/ insert_dataframe
    \/ batch_insert_dataframe
    \/ batch_insert_step

ClientSpec == ClientInit /\ [][ClientNext]_vars

\* ------------------------------------------------------------------ claims
Supported == {"SH", "SZ", "BJ"}
RoutedPrefixes == {"6", "0", "3", "8", "4"}

\* C1: a task is created Pending, and its status only ever moves
\* Pending -> Running -> Completed or Failed; a terminal status never changes.
C1_StatusTransitions ==
    [][ /\ \A t \in TaskIds :
              \/ tasks'[t].status = tasks[t].status
              \/ tasks[t].status = "pending" /\ tasks'[t].status = "running"
              \/ tasks[t].status = "running" /\ tasks'[t].status \in Terminal
        /\ \A t \in (DOMAIN tasks') \ TaskIds : tasks'[t].status = "pending"
      ]_vars

C1_Witness ==
    \E t \in TaskIds :
        /\ tasks[t].type = "batch_supplement"
        /\ tasks[t].status = "completed"
        /\ wk[t].pc = "returned"

\* C2: once a task's status is Completed or Failed, its worker modifies no
\* field of the task record any more.
C2_TerminalIsFinal ==
    [][ \A t \in TaskIds :
            tasks[t].status \in Terminal => tasks'[t] = tasks[t] ]_vars

\* C3: between two consecutive states in which a task is Running, its
\* progress does not decrease.
C3_ProgressMonotone ==
    [][ \A t \in TaskIds :
            (tasks[t].status = "running" /\ tasks'[t].status = "running")
                => tasks'[t].progress >= tasks[t].progress ]_vars

C3_Witness ==
    \E t \in TaskIds :
        /\ tasks[t].type = "batch_supplement"
        /\ tasks[t].status = "running"
        /\ tasks[t].progress > 10
        /\ wk[t].processed_stocks > 0

\* C4: the submission handler does not wait for the background work: from the
\* moment the task is stored, the response carrying the task id can be sent,
\* whatever the task's status.
C4_ResponseWithoutWaiting ==
    \A t \in TaskIds : resp[t] = "awaiting" => ENABLED Respond(t)

\* C5: a single backfill for a code that maps to none of SH, SZ, BJ is never
\* Running, and ends Failed with the unsupported-market message.
C5_UnsupportedNeverRunning ==
    \A t \in TaskIds :
        (tasks[t].type = "supplement" /\ tasks[t].stock_code \notin RoutedPrefixes)
            => /\ tasks[t].status # "running"
               /\ wk[t].pc = "returned"
                    => /\ tasks[t].status = "failed"
                       /\ tasks[t].message.tag = "unsupported_market"

\* C6: when a batch backfill finishes, every submitted stock has been visited
\* and counted, those without a provider included: processed == total.
C6_AllProcessed ==
    \A t \in TaskIds :
        (tasks[t].type = "batch_supplement" /\ wk[t].pc = "returned")
            => wk[t].processed_stocks = total_stocks(t)

C8_OutcomeAgainstTotal ==
    \A t \in TaskIds :
        (tasks[t].type = "batch_supplement" /\ wk[t].pc = "returned")
            => LET sc == tasks[t].success_count
                   total == total_stocks(t)
                   m == tasks[t].message
               IN /\ (m.tag = "complete") <=> (sc = total)
                  /\ (m.tag = "partial") <=> (0 < sc /\ sc < total)
                  /\ (m.tag = "failed") <=> (sc = 0)
                  /\ m.num = sc /\ m.den = total
                  /\ (tasks[t].status = "failed") <=> (sc = 0)

\* C9: a download or single backfill in whose worker a failure was raised
\* ends with status Failed and a message set.
C9_FailureCaptured ==
    \A t \in TaskIds :
        (tasks[t].type \in {"download", "supplement"}
            /\ wk[t].failure /\ wk[t].pc = "returned")
            => /\ tasks[t].status = "failed"
               /\ tasks[t].message.tag # "created"

\* C10: under fair scheduling every submitted task eventually is Completed
\* or Failed, whatever checks fill the pool.
C10_EventuallyTerminal ==
    \A i \in 1..MaxTasks :
        (Len(tasks) >= i) ~> (Len(tasks) >= i /\ tasks[i].status \in Terminal)

\* A task that found every pool thread busy when submitted, and finished.
C10_Witness ==
    \E t \in TaskIds : wk[t].waited /\ tasks[t].status \in Terminal

\* ---------------------------------------------- claims on polls and checks
\* What the formulas below are about: the check that was answered.
SingleChecked == checked # << >> /\ checked[1].check_scope = "single"
BatchChecked == checked # << >> /\ checked[1].check_scope = "all"
StoreReached == DbEngineLoaded /\ db_client = "ok"

\* The claims' own reading of the request: max(start, listingDate), the
\* trading days from there to end, and the dates the store holds there.
EffectiveStart(code, start_date) ==
    IF code \in DOMAIN list_date /\ list_date[code] > start_date
    THEN list_date[code] ELSE start_date
TradingDays(from_date, end_date) ==
    {date \in all_trade_dates : from_date <= date /\ date <= end_date}
StoredDays(code, from_date, end_date) ==
    {date \in Dates : /\ \E row \in store : row[1] = code /\ row[2] = date
                      /\ from_date <= date /\ date <= end_date}
ListedAfter(code, date) ==
    code \in DOMAIN list_date /\ list_date[code] # NoDate /\ list_date[code] > date

\* C11: a status poll never sees a record that is Completed with a progress
\* other than 100, nor a Completed download record without its download_url.
C11_PollSeesWholeUpdate ==
    polled # << >> =>
        (polled[1].status = "completed" =>
            /\ polled[1].progress = 100
            /\ polled[1].type = "download" => polled[1].download_url # FALSE)

\* C12: for an instrument listed after the range end the single check returns
\* a successful report with expected, existing and missing counts 0, no
\* missing date and completeness 100, and issues no store query.
C12_ListedAfterRange ==
    (SingleChecked /\ ListedAfter(checked[1].stock_code, checked[1].end_date))
        => /\ checked[1].result.success
           /\ checked[1].result.total_expected = 0
           /\ checked[1].result.existing_count = 0
           /\ checked[1].result.missing_count = 0
           /\ checked[1].result.missing_dates = {}
           /\ checked[1].result.completeness = 10000
           /\ checked[1].result.queries = << >>

C12_Witness ==
    /\ SingleChecked
    /\ ListedAfter(checked[1].stock_code, checked[1].end_date)
    /\ StoreReached
    /\ checked[1].start_date <= checked[1].end_date
    /\ TradingDays(checked[1].start_date, checked[1].end_date) # {}
    /\ StoredDays(checked[1].stock_code, checked[1].start_date,
                  checked[1].end_date) # {}

\* C13: a report with expectedCount 0 has completeness 100: a single report,
\* and in a batch over a range without trading days no instrument falls into
\* the partial or severe band.
C13_NothingExpectedIsComplete ==
    /\ (SingleChecked /\ checked[1].result.total_expected = 0)
          => checked[1].result.completeness = 10000
    /\ (BatchChecked /\ checked[1].result.success
           /\ checked[1].result.total_expected_days = 0)
          => /\ checked[1].result.partial_missing = 0
             /\ checked[1].result.severe_missing = 0

\* C14: when the store holds no row of the instrument in the range, the single
\* check reports missingCount == expectedCount and existingCount == 0.
C14_NothingStoredAllMissing ==
    (SingleChecked /\ StoredDays(checked[1].stock_code, checked[1].start_date,
                                 checked[1].end_date) = {})
        => /\ checked[1].result.missing_count = checked[1].result.total_expected
           /\ checked[1].result.existing_count = 0

\* C15: in a single check the expected dates are trading-calendar dates of
\* [start, end] and the missing dates are expected dates, so that
\* missingCount <= expectedCount.
C15_MissingWithinExpectedWithinCalendar ==
    SingleChecked =>
        LET expected_dates ==
                IF ListedAfter(checked[1].stock_code, checked[1].end_date)
                THEN {}
                ELSE ExpectedDates(
                         ActualStart(checked[1].start_date,
                                     IpoDate(checked[1].stock_code)),
                         checked[1].end_date)
        IN  /\ \A date \in expected_dates :
                  /\ strptime(date) \in all_trade_dates
                  /\ checked[1].start_date <= strptime(date)
                  /\ strptime(date) <= checked[1].end_date
            /\ checked[1].result.total_expected = Cardinality(expected_dates)
            /\ checked[1].result.missing_dates \subseteq expected_dates
            /\ checked[1].result.missing_count <= checked[1].result.total_expected

C15_Witness ==
    /\ SingleChecked
    /\ StoreReached
    /\ checked[1].result.missing_count > 0
    /\ checked[1].result.missing_count < checked[1].result.total_expected
    /\ checked[1].result.total_expected
         < checked[1].end_date - checked[1].start_date + 1

\* C16: when the single check cannot reach the store (module not loaded, no
\* client, or a raise), it still answers successfully, with every expected
\* date missing and existingCount 0.
C16_UnreachableStoreAllMissing ==
    (SingleChecked /\ ~StoreReached)
        => /\ checked[1].result.success
           /\ checked[1].result.missing_count = checked[1].result.total_expected
           /\ checked[1].result.existing_count = 0

\* C17: the single check reports expectedCount = trading days of
\* [max(start, listingDate), end] and, the store having answered,
\* existingCount = stored dates of the instrument in that interval and
\* missingCount = size of expected minus existing, of the calendar and the
\* store as they are when the check is answered.
C17_CountsAreSetSizes ==
    [][(checked = << >> /\ checked' # << >>) =>
        (SingleChecked =>
            LET from_date ==
                    EffectiveStart(checked[1].stock_code, checked[1].start_date)
                expected == TradingDays(from_date, checked[1].end_date)
                existing == StoredDays(checked[1].stock_code, from_date,
                                       checked[1].end_date)
            IN  /\ checked[1].result.total_expected = Cardinality(expected)
                /\ StoreReached =>
                     /\ checked[1].result.existing_count = Cardinality(existing)
                     /\ checked[1].result.missing_count
                          = Cardinality(expected \ existing)
                     /\ checked[1].result.missing_dates
                          = {strftime(date) : date \in expected \ existing})']_vars

\* C18: a batch check issues the aggregate group-by count query once, however
\* many instruments are in scope, and no per-instrument existence query; it
\* issues none only when it fails before reaching the store.
C18_OneAggregateQuery ==
    BatchChecked =>
        LET aggregate == SelectSeq(checked[1].result.queries,
                                   LAMBDA q : q = "aggregate")
            per_stock == SelectSeq(checked[1].result.queries,
                                   LAMBDA q : q = "dates")
        IN  /\ Len(aggregate) <= 1
            /\ per_stock = << >>
            /\ checked[1].result.success => Len(aggregate) = 1

C18_Witness ==
    /\ BatchChecked
    /\ checked[1].result.success
    /\ checked[1].result.total_stocks = MaxInstruments
    /\ Len(checked[1].result.details) = MaxInstruments
    /\ Len(SelectSeq(checked[1].result.queries, LAMBDA q : q = "aggregate")) = 1

\* C19: for every instrument in scope the batch check computes the same
\* expected, existing and missing counts as the single check does for the
\* same range: its detail entries carry the single check's counts, and an
\* instrument without a detail entry has nothing missing in a single check.
C19_BatchAgreesWithSingle ==
    (BatchChecked /\ checked[1].result.success) =>
        LET stock_list == get_stock_list_with_ipo_date[1]
            details == checked[1].result.details
            Single(code) ==
                check_data_completeness(code, checked[1].start_date,
                                        checked[1].end_date)
        IN  /\ \A k \in DOMAIN details :
                  /\ details[k].total_expected
                       = Single(details[k].code).total_expected
                  /\ details[k].existing_count
                       = Single(details[k].code).existing_count
                  /\ details[k].missing_count
                       = Single(details[k].code).missing_count
            /\ \A j \in DOMAIN stock_list :
                  (\A k \in DOMAIN details :
                        details[k].code # stock_list[j].code)
                     => Single(stock_list[j].code).missing_count = 0

NotSkipped(start_date, end_date) ==
    {j \in DOMAIN get_stock_list_with_ipo_date[1] :
        LET ipo_date == get_stock_list_with_ipo_date[1][j].ipo_date
        IN  ipo_date = NoDate \/ (ipo_date <= end_date /\ start_date <= end_date)}

\* C21: every non-skipped instrument of a batch check is counted in exactly
\* one band by its completeness c (existing / expected, 0 when nothing is
\* expected): complete when c >= 99, partial when 50 <= c < 99, severe when
\* c < 50.
C21_BandsByCompleteness ==
    (BatchChecked /\ checked[1].result.success) =>
        LET stock_list == get_stock_list_with_ipo_date[1]
            Expected(j) == StockExpectedDays(stock_list[j], checked[1].start_date,
                                             checked[1].end_date)
            Existing(j) == StockDataCount(stock_list[j].code,
                               checked[1].start_date, checked[1].end_date)
            counted == NotSkipped(checked[1].start_date, checked[1].end_date)
            complete == {j \in counted : /\ Expected(j) > 0
                                         /\ 100 * Existing(j) >= 99 * Expected(j)}
            partial == {j \in counted : /\ Expected(j) > 0
                                        /\ 100 * Existing(j) >= 50 * Expected(j)
                                        /\ 100 * Existing(j) < 99 * Expected(j)}
        IN  /\ checked[1].result.complete_stocks = Cardinality(complete)
            /\ checked[1].result.partial_missing = Cardinality(partial)
            /\ checked[1].result.severe_missing
                 = Cardinality(counted \ (complete \cup partial))

C21_Witness ==
    /\ BatchChecked
    /\ checked[1].result.success
    /\ checked[1].result.total_expected_days = 2
    /\ checked[1].result.complete_stocks = 1
    /\ checked[1].result.partial_missing = 1
    /\ checked[1].result.severe_missing = 0

\* C22: the detail list of a batch check holds exactly the non-skipped
\* instruments with missingCount > 0, each once, in order of non-decreasing
\* completeness.
C22_DetailsAreTheMissingSorted ==
    (BatchChecked /\ checked[1].result.success) =>
        LET stock_list == get_stock_list_with_ipo_date[1]
            details == checked[1].result.details
            missing == {j \in NotSkipped(checked[1].start_date,
                                         checked[1].end_date) :
                          StockExpectedDays(stock_list[j], checked[1].start_date,
                                            checked[1].end_date)
                          - StockDataCount(stock_list[j].code,
                                checked[1].start_date, checked[1].end_date) > 0}
        IN  /\ {details[k].code : k \in DOMAIN details}
                 = {stock_list[j].code : j \in missing}
            /\ Len(details) = Cardinality(missing)
            /\ \A k \in DOMAIN details : details[k].missing_count > 0
            /\ \A k \in 1..(Len(details) - 1) :
                  details[k].completeness <= details[k + 1].completeness

C22_Witness ==
    /\ BatchChecked
    /\ checked[1].result.success
    /\ Len(checked[1].result.details) = 2
    /\ checked[1].result.details[1].code > checked[1].result.details[2].code
    /\ checked[1].result.details[1].completeness
         < checked[1].result.details[2].completeness
    /\ checked[1].result.complete_stocks + checked[1].result.partial_missing
         + checked[1].result.severe_missing = 2

\* C23: an instrument without a listing date is still checked, against the
\* whole calendar range [start, end]: in the single check, and in the batch
\* check also when the registry has listing dates for other instruments.
C23_NoListingDateStillChecked ==
    /\ (SingleChecked /\ IpoDate(checked[1].stock_code) = NoDate)
          => checked[1].result.total_expected
               = Cardinality(TradingDays(checked[1].start_date,
                                         checked[1].end_date))
    /\ (BatchChecked /\ StoreReached)
          => \A k \in DOMAIN get_stock_list[1] :
                IpoDate(get_stock_list[1][k]) = NoDate
                  => /\ checked[1].result.success
                     /\ \E j \in DOMAIN get_stock_list_with_ipo_date[1] :
                           get_stock_list_with_ipo_date[1][j].code
                             = get_stock_list[1][k]

\* ------------------------------------------------ claims on ClickHouseClient
\* C24: execute_query retries only service-unavailable (503) errors: at most
\* 3 attempts, with waits of 1 then 2 between them; the first answer is
\* returned at once; after a third 503 it returns None; any other error is
\* the last attempt and returns None.
C24_RetriesOnlyUnavailable ==
    /\ Len(query_outcomes) <= 3
    /\ slept = SubSeq(<<1, 2>>, 1, Len(slept))
    /\ Len(slept) = IF query_call = "returned" /\ query_outcomes # << >>
                    THEN Len(query_outcomes) - 1
                    ELSE Len(query_outcomes)
    /\ query_ret = <<"result">>
         => query_outcomes[Len(query_outcomes)] = Result
    /\ \A k \in DOMAIN query_outcomes :
          LET outcome == query_outcomes[k]
              last == (k = Len(query_outcomes)) /\ query_call = "returned"
          IN  /\ outcome = Result => last /\ query_ret = <<"result">>
              /\ (outcome[1] = "service unavailable" /\ k < 3) => ~last
              /\ (outcome[1] = "service unavailable" /\ k = 3)
                    => last /\ query_ret = <<"None">>
              /\ outcome[1] \notin {"result", "service unavailable"}
                    => last /\ query_ret = <<"None">>

\* C25: an insert of an empty DataFrame, by either method, returns True,
\* makes no insert_df call and leaves the table as it was.
C25_EmptyInsertIsNoOp ==
    [][(insert_call = "idle" /\ insert_call' # "idle" /\ df' = << >>)
         => /\ insert_call' = "returned"
            /\ insert_ret' = <<TRUE>>
            /\ inserted' = inserted
            /\ table' = table]_vars

C25_Witness ==
    /\ client = "connected"
    /\ method = "insert_dataframe"
    /\ insert_call = "returned"
    /\ df = << >>
    /\ insert_ret = <<TRUE>>

\* C26: a batch insert of N > 0 rows with batch size B whose batches all
\* succeed makes exactly ceil(N / B) insert_df calls, each of at most B rows;
\* call k holds rows (k-1)*B+1 .. min(k*B, N) in order, so every row is in
\* exactly one call.
C26_ChunksPartitionTheRows ==
    (/\ method = "batch_insert_dataframe"
     /\ insert_call = "returned"
     /\ insert_ret = <<TRUE>>
     /\ df # << >>) =>
        /\ Len(inserted) = (Len(df) + batch_size - 1) \div batch_size
        /\ \A k \in DOMAIN inserted :
              /\ inserted[k][2]
              /\ Len(inserted[k][1]) <= batch_size
              /\ \A j \in DOMAIN inserted[k][1] :
                    inserted[k][1][j] = df[(k - 1) * batch_size + j]
        /\ \A r \in DOMAIN df :
              Cardinality({at \in (DOMAIN inserted) \X (1..batch_size) :
                  /\ at[2] \in DOMAIN inserted[at[1]][1]
                  /\ inserted[at[1]][1][at[2]] = df[r]}) = 1
        /\ table = df

C26_Witness ==
    /\ method = "batch_insert_dataframe"
    /\ insert_call = "returned"
    /\ insert_ret = <<TRUE>>
    /\ Len(df) = 5
    /\ batch_size = 2
    /\ Len(inserted) = 3

\* C27: when the insert of batch k fails, no insert_df call follows it, the
\* batch insert returns False, and the rows of the batches before k stay in
\* the table.
C27_ChunkFailureAborts ==
    method = "batch_insert_dataframe" =>
        /\ \A k \in DOMAIN inserted :
              ~inserted[k][2] =>
                  /\ k = Len(inserted)
                  /\ insert_call = "returned"
                  /\ insert_ret = <<FALSE>>
                  /\ table = SubSeq(df, 1, (k - 1) * batch_size)
        /\ insert_ret = <<FALSE>> => successful_batches * batch_size < Len(df)

C27_Witness ==
    /\ method = "batch_insert_dataframe"
    /\ Len(df) > 2 * batch_size
    /\ Len(inserted) = 2
    /\ ~inserted[2][2]
    /\ insert_call = "returned"
    /\ insert_ret = <<FALSE>>
    /\ table = inserted[1][1]

\* C28: when a batch insert fails on its 2nd batch, what it returns to the
\* caller includes the number of rows already inserted, one batch's worth.
C28_PartialCountReported ==
    (/\ method = "batch_insert_dataframe"
     /\ insert_call = "returned"
     /\ Len(inserted) = 2
     /\ ~inserted[2][2]) =>
        /\ Len(insert_ret) = 2
        /\ insert_ret[2] = Len(inserted[1][1])

\* ------------------------------------------------ claims on writes to the store
\* C29: after any backfills and downloads with write_to_db, the store holds
\* at most one row per key (date, code, market).
C29_OneBarPerKey ==
    \A row \in store, other \in store :
        (row[1] = other[1] /\ row[2] = other[2]) => row = other

\* C30: when a single backfill of the missing dates a check reported ends
\* completed, the same check asked again reports missing_count 0.
C30_BackfillRoundTrip ==
    (/\ Len(checked) = 2
     /\ \E k \in DOMAIN filled :
           /\ filled[k][1] = "supplement"
           /\ filled[k][2] = checked[1].stock_code
           /\ filled[k][3] = checked[1].result.missing_dates
           /\ filled[k][5] = "completed"
           /\ filled[k][6] = 1) =>
        checked[2].result.missing_count = 0

\* ------------------------------------------- claims on the sums of the reports
\* C37: in every successful single check report, the store having answered,
\* existingCount + missingCount = expectedCount, whatever the store holds.
C37_SingleCountsAddUp ==
    (SingleChecked /\ StoreReached /\ checked[1].result.success) =>
        checked[1].result.existing_count + checked[1].result.missing_count
          = checked[1].result.total_expected

\* C38: for every instrument a batch check evaluates, 0 <= missingCount <=
\* expectedCount and 0 <= completeness <= 100, whatever the store holds.
C38_BatchCountsInRange ==
    (BatchChecked /\ checked[1].result.success) =>
        \A j \in NotSkipped(checked[1].start_date, checked[1].end_date) :
            LET stock_info == get_stock_list_with_ipo_date[1][j]
                stock_expected_days ==
                    StockExpectedDays(stock_info, checked[1].start_date,
                                      checked[1].end_date)
                existing_count ==
                    StockDataCount(stock_info.code, checked[1].start_date,
                                   checked[1].end_date)
                missing_count == stock_expected_days - existing_count
                completeness == Completeness(existing_count, stock_expected_days)
            IN  /\ 0 <= missing_count
                /\ missing_count <= stock_expected_days
                /\ 0 <= completeness
                /\ completeness <= 10000

\* C39: in every successful batch summary the three bands add up to
\* total_stocks, whatever the instrument list.
C39_BandsAddUpToTotal ==
    (BatchChecked /\ checked[1].result.success) =>
        checked[1].result.complete_stocks + checked[1].result.partial_missing
          + checked[1].result.severe_missing
          = checked[1].result.total_stocks

\* --------------------------------------------------- claims on the daily job
\* The rows a table holds for a date, and the rows a fetch of data makes.
RowsOfDate(rows, date) == {row \in rows : row[1] = date}
FetchedRows(date, data) == {<<date, code, 1>> : code \in data}

\* C36: a run whose fetch returns nothing issues no statement; a run on an
\* existing table whose fetch returns rows deletes the rows of the date and
\* then inserts; and a run that repeats the run before it (same table, date
\* and data, nothing raising in either) leaves the rows of the date as they
\* were, one per (date, code).
C36_SaveIsIdempotent ==
    [][job_log' # job_log =>
        LET run == job_log'[Len(job_log')]
            table_name == run[1]
            before == RowsOfDate(job_rows[table_name], run[2])
            after == RowsOfDate(job_rows'[table_name], run[2])
        IN  /\ run[3] = {} => (run[4] = << >> /\ job_rows' = job_rows)
            /\ (run[3] # {} /\ run[5] = "nothing" /\ table_name \in job_exists)
                  => (run[4] = <<"DELETE", "INSERT">>
                      /\ after = FetchedRows(run[2], run[3]))
            /\ (/\ job_log # << >>
                /\ run[5] = "nothing"
                /\ job_log[Len(job_log)][1] = run[1]
                /\ job_log[Len(job_log)][2] = run[2]
                /\ job_log[Len(job_log)][3] = run[3]
                /\ job_log[Len(job_log)][5] = "nothing")
                  => after = before]_vars

C36_Witness ==
    /\ Len(job_log) = 2
    /\ job_log[1][1] = job_log[2][1]
    /\ job_log[1][2] = job_log[2][2]
    /\ job_log[1][3] = Instruments
    /\ job_log[1][4] = <<"INSERT">>
    /\ job_log[1][5] = "nothing"
    /\ job_log[2][3] = Instruments
    /\ job_log[2][4] = <<"DELETE", "INSERT">>
    /\ job_log[2][5] = "nothing"
    /\ RowsOfDate(job_rows[job_log[2][1]], job_log[2][2])
         = FetchedRows(job_log[2][2], Instruments)

\* ------------------------------------------------ claims on the task workers
\* C32: a single backfill whose provider query failed or returned no data
\* ends failed with a message that still names that provider failure.
C32_ProviderErrorKept ==
    \A t \in TaskIds :
        (/\ tasks[t].type = "supplement"
         /\ wk[t].pc = "returned"
         /\ wk[t].err \in {"query_failed", "no_data", "fetch_raised"}) =>
            /\ tasks[t].status = "failed"
            /\ tasks[t].message.cause = wk[t].err

C31_MissingInputRefused ==
    [][ /\ \A stock_code \in CodeArgs, start_date \in DateArgs, end_date \in DateArgs :
              DownloadRefused(stock_code, start_date, end_date)
                 <=> (stock_code = "" \/ start_date = "" \/ end_date = "")
        /\ \A stock_code \in CodeArgs, missing_dates \in MissingDateArgs :
              SingleRefused(stock_code, missing_dates)
                 <=> (stock_code = "" \/ Len(missing_dates) = 0)
        /\ \A start_date \in DateArgs, end_date \in DateArgs, missing_stocks \in MissingStockLists \cup { << >> } :
              BatchRefused(start_date, end_date, missing_stocks)
                 <=> (start_date = "" \/ end_date = "" \/ Len(missing_stocks) = 0)
        /\ refused' # refused =>
              /\ refused' # ""
              /\ UNCHANGED <<tasks, wk, resp, queue>>
        /\ \A t \in DOMAIN tasks' :
              /\ tasks'[t].type \in {"download", "supplement"} => tasks'[t].stock_code # ""
              /\ tasks'[t].type = "batch_supplement" => tasks'[t].missing_stocks # << >>
      ]_vars

\* A batch backfill request was refused and the registry is still empty.
C31_Witness ==
    /\ refused = "dates_or_stocks_missing"
    /\ tasks = << >>
    /\ queue = << >>

\* ---------------------------------------------- claims on provider sessions
\* The baostock calls of task t, in order.
CallsOf(t) == SelectSeq(bs_calls, LAMBDA c : c[1] = t)

\* The worker of t is between its bs.login() and its bs.logout().
InsideSession(t) ==
    /\ tasks[t].type = "supplement"
    /\ wk[t].pc \in {"L1271", "L1272", "L1276", "L1305", "L1306", "L1309", "L1321", "L1333"}

\* C34: in the calls of every task, a query directly follows that task's own
\* successful login (so none comes before a login or after a failed one), a
\* logout only closes a login of the task that is still open, and the task
\* has exactly one login without its logout while it is between the two and
\* none once the provider function has returned, on every path.
C34_SessionBracketed ==
    \A t \in TaskIds :
        LET calls == CallsOf(t)
            CountOf(n, call) == Len(SelectSeq(SubSeq(calls, 1, n), LAMBDA c : c[2] = call))
            Open(n) == CountOf(n, "login") - CountOf(n, "logout")
        IN /\ \A i \in DOMAIN calls :
                 /\ calls[i][2] = "fetch" => (i > 1 /\ calls[i - 1][2] = "login")
                 /\ calls[i][2] = "logout" => Open(i - 1) = 1
                 /\ calls[i][2] = "login" => Open(i - 1) = 0
           /\ Open(Len(calls)) = (IF InsideSession(t) THEN 1 ELSE 0)

\* A single backfill whose store write raised after login and query, and
\* which has returned with its logout made.
C34_Witness ==
    \E t \in TaskIds :
        /\ tasks[t].type = "supplement"
        /\ wk[t].pc = "returned"
        /\ wk[t].err = "insert_raised"
        /\ CallsOf(t) = << <<t, "login">>, <<t, "fetch">>, <<t, "logout">> >>

\* C40: while a task is between its own successful login and its own logout,
\* the process-wide provider session is open: the last login or logout made
\* by any task was a login.
C40_SessionStaysOpen ==
    \A t \in TaskIds :
        InsideSession(t) =>
            LET opening == SelectSeq(bs_calls, LAMBDA c : c[2] \in {"login", "logout"})
            IN opening # << >> /\ opening[Len(opening)][2] = "login"

\* ------------------------------------------------- claims on the registry
\* C35: a step that changes the record of a task is a step of the worker
\* running that task and changes no other record; a status poll changes no
\* record; a submission keeps every record there is and adds exactly one,
\* Pending with progress 0, under the next unused id.
C35_OnlyOwnWorkerWrites ==
    [][ /\ \A t \in TaskIds :
              /\ t \in DOMAIN tasks'
              /\ tasks'[t] # tasks[t] =>
                    /\ wk[t].pc \notin {"queued", "returned"}
                    /\ wk'[t].pc # wk[t].pc
                    /\ \A u \in TaskIds \ {t} : tasks'[u] = tasks[u] /\ wk'[u] = wk[u]
        /\ polled' # polled => tasks' = tasks
        /\ Len(tasks') # Len(tasks) =>
              /\ Len(tasks') = Len(tasks) + 1
              /\ SubSeq(tasks', 1, Len(tasks)) = tasks
              /\ tasks'[Len(tasks')].status = "pending"
              /\ tasks'[Len(tasks')].progress = 0
      ]_vars

\* Two backfills are running at once, each has written its own record, and
\* the first has been polled.
C35_Witness ==
    /\ Len(tasks) = 2
    /\ wk[1].pc \notin {"queued", "entered", "returned"}
    /\ wk[2].pc \notin {"queued", "entered", "returned"}
    /\ tasks[1].progress = 30
    /\ tasks[2].progress = 10
    /\ polled # << >>

====
